---------------------------- MODULE Spec2Model ----------------------------
(***************************************************************************)
(* A model of PythonAPI/no_rendering_mode.py: the module registry, the     *)
(* frame loop of game_loop, the three modules (Input, Hud, World), the     *)
(* shared shutdown procedure exit_game, and the simulator tick callback    *)
(* that the CARLA client runs on a thread of its own.                      *)
(*                                                                         *)
(* The main thread is a program counter pc over the statements of          *)
(* game_loop; the callback thread is a program counter cbpc over the       *)
(* statements of ModuleWorld.on_world_tick.  Every step of either thread   *)
(* is one action, so the two interleave statement by statement.            *)
(*                                                                         *)
(* The file is read as Python 2.7 / 3.5 run it: later interpreters reject  *)
(* the second `global scale_x` of _parse_events (line 278) at compile time.*)
(* pygame.mouse.get_pos() and get_pressed() return the state of the last   *)
(* event pump, so one poll sees one mouse position and one button state.   *)
(***************************************************************************)
EXTENDS Integers, Sequences, FiniteSets, TLC

(***************************************************************************)
(* Bounds of the model (not program constants).                            *)
(***************************************************************************)
\* Longest event queue one poll of pygame.event.get() returns (Spec).
MaxEvents == 2
\* Most wheel-up / wheel-down events accepted over a run (Spec).
MaxWheel == 1
\* Longest event queue of one poll in SpecZoom and SpecPan.
MaxBurst == 1
\* Most wheel-up events accepted over a run (SpecZoom).
MaxUps == 3
\* Most wheel-down events accepted over a run (SpecZoom).
MaxDowns == 12
\* Largest distance of a pan offset from its initial value.
MaxPan == 4
\* Longest actor list world.get_actors() returns (SpecRender).
MaxActors == 2

(***************************************************************************)
(* Module names, lines 56-58.                                              *)
(***************************************************************************)
MODULE_WORLD == "World"
MODULE_HUD == "Hud"
MODULE_INPUT == "Input"
\* Python's None: what get_module returns when its loop finds nothing.
None == "None"

(***************************************************************************)
(* IEEE-754 binary64 arithmetic on the zoom factors.                       *)
(*                                                                         *)
(* scale_x and scale_y start as the int 1 and are changed only by          *)
(* `+= 0.1` and `-= 0.1`, which are binary64 operations.  Every value that *)
(* arises is an integer multiple of 2^-56 (the unit in the last place of   *)
(* the literal 0.1) of magnitude below 8.  A double d is the pair          *)
(* <<hi, lo>> with d = (hi * 2^28 + lo) * 2^-56 and 0 <= lo < 2^28, so     *)
(* that every intermediate stays inside TLC's 32-bit integers.             *)
(***************************************************************************)
Limb == 2^28

\* The int 1 converted to a double: 2^56 units.
DOne == <<2^28, 0>>

DZero == <<0, 0>>

\* The literal 0.1 (lines 273-281): 0x3FB999999999999A =
\* 7205759403792794 * 2^-56 = (26843545 * 2^28 + 161061274) * 2^-56.
Tenth == <<26843545, 161061274>>

\* Carry the low limb into the high one.
DNorm(hi, lo) == <<hi + (lo \div Limb), lo % Limb>>

\* Exact sum and negation of unit counts (no rounding).
DExactAdd(a, b) == DNorm(a[1] + b[1], a[2] + b[2])

DNeg(a) == IF a[2] = 0 THEN <<-a[1], 0>> ELSE <<-a[1] - 1, Limb - a[2]>>

DIsNeg(a) == a[1] < 0

DAbs(a) == IF DIsNeg(a) THEN DNeg(a) ELSE a

DLeq(a, b) == a[1] < b[1] \/ (a[1] = b[1] /\ a[2] <= b[2])

\* Units per ulp in the binade of magnitude m: 53 significant bits.
Quantum(m) ==
    IF m[1] >= 2^30 THEN 64
    ELSE IF m[1] >= 2^29 THEN 32
    ELSE IF m[1] >= 2^28 THEN 16
    ELSE IF m[1] >= 2^27 THEN 8
    ELSE IF m[1] >= 2^26 THEN 4
    ELSE IF m[1] >= 2^25 THEN 2
    ELSE 1

\* Round a magnitude to 53 significant bits, ties to even.
DRoundMag(m) ==
    LET q == Quantum(m)
        r == m[2] % q
        down == m[2] - r
        up == (2 * r > q) \/ (2 * r = q /\ (down \div q) % 2 = 1)
    IN  IF up THEN DNorm(m[1], down + q) ELSE <<m[1], down>>

DRound(a) == IF DIsNeg(a) THEN DNeg(DRoundMag(DNeg(a))) ELSE DRoundMag(a)

\* The binary64 sum and difference, as `+=` and `-=` compute them.
DAdd(a, b) == DRound(DExactAdd(a, b))

DSub(a, b) == DRound(DExactAdd(a, DNeg(b)))

\* k * d without rounding, for k >= 0.
RECURSIVE DTimes(_, _)
DTimes(k, d) == IF k = 0 THEN DZero ELSE DExactAdd(d, DTimes(k - 1, d))


(***************************************************************************)
(* State.                                                                  *)
(***************************************************************************)
VARIABLES
    \* main thread
    pc,           \* position of the main thread in game_loop / exit_game
    modules,      \* module_manager.modules: names in list order
    iter,         \* index of the list iterator of the running tick/render pass
    \* simulator tick callback (its own thread)
    worldLive,    \* the ModuleWorld object is still referenced (weak_self() resolves)
    subscribed,   \* world.on_tick(...) has registered the callback
    cbpc,         \* position of the callback thread in on_world_tick
    cbHud,        \* the callback's local hud_module
    \* ModuleHUD
    server_fps, info_text, show_info,
    clockFps,     \* what clock.get_fps() of the main loop's clock returns
    \* ModuleInput and the pan/zoom globals
    mouse_pos, scale_x, scale_y, offset_x, offset_y,
    \* the window system, as of the last event pump
    held,         \* pygame.mouse.get_pressed()[0]
    mouse,        \* pygame.mouse.get_pos()
    \* ModuleWorld
    actors,       \* the actor list of the last world.get_actors(): type ids
    surface,      \* what has been drawn on self.surface since its last fill
    \* history (observations, never read by the program)
    registered,   \* the names passed to register_module, in call order
    frameLog,     \* the calls the main loop made in the current frame
    exitCause,    \* why the process is ending
    cbFailed,     \* the callback raised AttributeError on a None hud_module
    polled,       \* the event list of the last poll
    processed,    \* how many of its events _parse_events handled
    ups, downs    \* wheel-up / wheel-down events handled so far

loopVars == <<pc, modules, iter, registered, frameLog, exitCause>>
worldVars == <<worldLive, subscribed>>
cbVars == <<cbpc, cbHud, cbFailed>>
hudVars == <<server_fps, info_text, show_info>>
inputVars == <<mouse_pos, scale_x, scale_y, offset_x, offset_y, held, mouse,
               polled, processed, ups, downs>>
renderVars == <<actors, surface>>
vars == <<loopVars, worldVars, cbVars, hudVars, clockFps, inputVars, renderVars>>

(***************************************************************************)
(* Inputs of the environment.                                              *)
(***************************************************************************)
\* pygame events, as the fields _parse_events reads: type, key, button.
Ev(t, k, b) == [type |-> t, key |-> k, button |-> b]
EvQuit == Ev("QUIT", "-", 0)
EvEscapeUp == Ev("KEYUP", "K_ESCAPE", 0)
EvOtherKeyUp == Ev("KEYUP", "K_a", 0)
EvLeftDown == Ev("MOUSEBUTTONDOWN", "-", 1)
EvWheelUp == Ev("MOUSEBUTTONDOWN", "-", 4)
EvWheelDown == Ev("MOUSEBUTTONDOWN", "-", 5)
EvLeftUp == Ev("MOUSEBUTTONUP", "-", 1)
EvMotion == Ev("MOUSEMOTION", "-", 0)

\* All lists of at most n elements of the given set.
SeqsUpTo(kinds, n) == UNION {[1..k -> kinds] : k \in 0..n}

\* Frame rates in tenths of a frame per second (get_fps returns a float).
ServerRates == {0, 299}
ClientRates == {0, 599}

\* Actor type ids, as sequences of characters.
TVehicle == <<"v", "e", "h", "i", "c", "l", "e", ".", "a", "u", "d", "i", ".", "t", "t">>   \* "vehicle.audi.tt"
TTrafficLight == <<"t", "r", "a", "f", "f", "i", "c", ".", "t", "r", "a", "f", "f", "i", "c", "_", "l", "i", "g", "h", "t">>   \* "traffic.traffic_light"
TSpeedLimit == <<"t", "r", "a", "f", "f", "i", "c", ".", "s", "p", "e", "e", "d", "_", "l", "i", "m", "i", "t", ".", "3", "0">>   \* "traffic.speed_limit.30"
TWalker == <<"w", "a", "l", "k", "e", "r", ".", "p", "e", "d", "e", "s", "t", "r", "i", "a", "n", ".", "0", "0", "0", "1">>   \* "walker.pedestrian.0001"
TStop == <<"t", "r", "a", "f", "f", "i", "c", ".", "s", "t", "o", "p">>   \* "traffic.stop"
TLightedVehicle == <<"v", "e", "h", "i", "c", "l", "e", ".", "t", "r", "a", "f", "f", "i", "c", "_", "l", "i", "g", "h", "t", "_", "t", "r", "u", "c", "k">>   \* "vehicle.traffic_light_truck"
TAllThree == <<"s", "t", "a", "t", "i", "c", ".", "s", "p", "e", "e", "d", "_", "l", "i", "m", "i", "t", "_", "v", "e", "h", "i", "c", "l", "e", "_", "t", "r", "a", "f", "f", "i", "c", "_", "l", "i", "g", "h", "t">>   \* "static.speed_limit_vehicle_traffic_light"
TypeIds == {TVehicle, TTrafficLight, TSpeedLimit, TWalker, TStop, TLightedVehicle, TAllThree}

(***************************************************************************)
(* ModuleManager, lines 65-88.                                             *)
(***************************************************************************)
\* register_module: self.modules.append(module)
RegisterModule(ms, m) == Append(ms, m)

\* clear_modules: del self.modules[:]
ClearModules(ms) == <<>>

\* get_module: the first module of that name; falls off the loop (None) otherwise
GetModule(ms, name) ==
    IF \E i \in 1..Len(ms) : ms[i] = name THEN name ELSE None

(***************************************************************************)
(* ModuleHUD, lines 110-129.                                               *)
(***************************************************************************)
\* '% 16d' % fps: a float is truncated to an int (rates are >= 0, in tenths)
FormatFps(fps) == fps \div 10

\* A faulty variant of HudText: the client line is built from the server rate as well.
HudText_ClientFromServer(serverFps, clientFps) ==
    << [label |-> "Server", fps |-> FormatFps(serverFps)],
       [label |-> "Client", fps |-> FormatFps(serverFps)] >>

\* The two lines tick() builds: the server line from self.server_fps, the
\* client line from clock.get_fps().
HudText(serverFps, clientFps) ==
    << [label |-> "Server", fps |-> FormatFps(serverFps)],
       [label |-> "Client", fps |-> FormatFps(clientFps)] >>

(***************************************************************************)
(* ModuleInput, lines 258-300.                                             *)
(***************************************************************************)
\* scale_x += 0.1 ; scale_y += 0.1
WheelUp(s) == DAdd(s, Tenth)

\* A faulty variant of WheelDown: the factor is clamped at zero.
WheelDown_Clamped(s) == IF DIsNeg(DSub(s, Tenth)) THEN s ELSE DSub(s, Tenth)

\* scale_x -= 0.1 ; scale_y -= 0.1
WheelDown(s) == DSub(s, Tenth)

\* A faulty variant of IsExitEvent: every key-up quits, not only Escape.
IsExitEvent_AnyKeyUp(e) == e.type = "QUIT" \/ e.type = "KEYUP"

\* The events on which _parse_events calls exit_game().
IsExitEvent(e) ==
    \/ e.type = "QUIT"
    \/ e.type = "KEYUP" /\ e.key = "K_ESCAPE"

ExitCauseOf(e) == IF e.type = "QUIT" THEN "quit" ELSE "escape"

\* One turn of the event loop on an event that does not exit.  st holds the
\* fields the loop writes; pos is pygame.mouse.get_pos().
HandleEvent(st, e, pos) ==
    IF e.type = "MOUSEBUTTONDOWN"
    THEN LET s1 == [st EXCEPT !.mouse_pos = pos]
             s2 == IF e.button = 4
                   THEN [s1 EXCEPT !.scale_x = WheelUp(@), !.scale_y = WheelUp(@),
                                   !.ups = @ + 1]
                   ELSE s1
             s3 == IF e.button = 5
                   THEN [s2 EXCEPT !.scale_x = WheelDown(@), !.scale_y = WheelDown(@),
                                   !.downs = @ + 1]
                   ELSE s2
         IN  s3
    ELSE st

\* _parse_events: the events in queue order; exit_game() raises SystemExit,
\* which ends the loop at that event.
RECURSIVE ParseEvents(_, _, _, _)
ParseEvents(evs, i, st, pos) ==
    IF i > Len(evs) THEN st
    ELSE IF IsExitEvent(evs[i])
    THEN [st EXCEPT !.exited = TRUE, !.cause = ExitCauseOf(evs[i]), !.processed = i]
    ELSE ParseEvents(evs, i + 1,
                     [HandleEvent(st, evs[i], pos) EXCEPT !.processed = i], pos)

\* A faulty variant of PanDelta: the last known position is not subtracted.
PanDelta_FromOrigin(pos, mp) == pos

\* _parse_mouse: x - self.mouse_pos[0], y - self.mouse_pos[1]
PanDelta(pos, mp) == <<pos[1] - mp[1], pos[2] - mp[2]>>

\* The left button's state after the window system has seen these events.
RECURSIVE HeldAfter(_, _)
HeldAfter(h, evs) ==
    IF evs = <<>> THEN h
    ELSE LET e == Head(evs)
             h1 == IF e.button = 1 /\ e.type = "MOUSEBUTTONDOWN" THEN TRUE
                   ELSE IF e.button = 1 /\ e.type = "MOUSEBUTTONUP" THEN FALSE
                   ELSE h
         IN  HeldAfter(h1, Tail(evs))

\* The window system reports a press of the left button only while it is up
\* and a release only while it is down.
RECURSIVE Plausible(_, _)
Plausible(h, evs) ==
    IF evs = <<>> THEN TRUE
    ELSE LET e == Head(evs)
         IN  /\ (e.button = 1 /\ e.type = "MOUSEBUTTONDOWN") => ~h
             /\ (e.button = 1 /\ e.type = "MOUSEBUTTONUP") => h
             /\ Plausible(HeldAfter(h, <<e>>), Tail(evs))

(***************************************************************************)
(* ModuleWorld, lines 205-240.                                             *)
(***************************************************************************)
FVehicle == <<"v", "e", "h", "i", "c", "l", "e">>   \* 'vehicle'
FTrafficLight == <<"t", "r", "a", "f", "f", "i", "c", "_", "l", "i", "g", "h", "t">>   \* 'traffic_light'
FSpeedLimit == <<"s", "p", "e", "e", "d", "_", "l", "i", "m", "i", "t">>   \* 'speed_limit'

\* Python's `filter in actor.type_id` on strings: substring containment.
IsSubstring(f, s) ==
    \E i \in 0..(Len(s) - Len(f)) : SubSeq(s, i + 1, i + Len(f)) = f

\* A faulty variant of ActorMatches: the type id must start with the filter.
ActorMatches_StartsWith(f, typeId) ==
    Len(f) <= Len(typeId) /\ SubSeq(typeId, 1, Len(f)) = f

\* The test of the list comprehension of render_actors.
ActorMatches(f, typeId) == IsSubstring(f, typeId)

\* render_actors: one circle per actor that passes the filter, in list order.
\* An actor is identified by its index in the list.
RECURSIVE RenderActorsFrom(_, _, _, _)
RenderActorsFrom(i, as, f, color) ==
    IF i > Len(as) THEN <<>>
    ELSE (IF ActorMatches(f, as[i]) THEN <<[actor |-> i, color |-> color]>> ELSE <<>>)
         \o RenderActorsFrom(i + 1, as, f, color)

RenderActors(as, f, color) == RenderActorsFrom(1, as, f, color)

\* render_map: the polyline (255, 0, 255) of the waypoints.
RenderMap == <<[actor |-> 0, color |-> "magenta"]>>

\* What render() draws on self.surface between its fill and the scaling:
\* the map, then the three filters in the order and colours of lines 235-237.
DrawWorld(as) ==
    RenderMap \o RenderActors(as, FVehicle, "red")
              \o RenderActors(as, FTrafficLight, "green")
              \o RenderActors(as, FSpeedLimit, "blue")

(***************************************************************************)
(* The initial state: game_loop has created the window and the Input       *)
(* module (line 319); the module-level globals of lines 172-175 and 307    *)
(* hold their initial values.                                              *)
(***************************************************************************)
\* offset_x = 250, offset_y = 250
InitialOffset == 250

Init ==
    /\ pc = "mk_world" /\ modules = <<>> /\ iter = 0
    /\ registered = <<>> /\ frameLog = <<>> /\ exitCause = "none"
    /\ worldLive = FALSE /\ subscribed = FALSE
    /\ cbpc = "idle" /\ cbHud = None /\ cbFailed = FALSE
    /\ server_fps = 0 /\ info_text = <<>> /\ show_info = FALSE
    /\ clockFps = 0
    /\ mouse_pos = <<0, 0>>
    /\ scale_x = DOne /\ scale_y = DOne
    /\ offset_x = InitialOffset /\ offset_y = InitialOffset
    /\ held = FALSE /\ mouse = <<0, 0>>
    /\ polled = <<>> /\ processed = 0
    /\ ups = 0 /\ downs = 0
    /\ actors = <<>> /\ surface = <<>>

\* An entry of frameLog: the main loop called op on module m.
Call(op, m) == [op |-> op, module |-> m]

(***************************************************************************)
(* exit_game, lines 339-342, in two steps: clear_modules(), then           *)
(* pygame.quit() and sys.exit().  The callback thread can run in between.  *)
(***************************************************************************)
ExitGame(cause) ==
    /\ modules' = ClearModules(modules)
    /\ pc' = "exiting"
    /\ exitCause' = cause

\* pygame.quit(); sys.exit(): SystemExit is an exception no caller handles
\* (main catches KeyboardInterrupt only).  Unwinding game_loop drops the last
\* reference to the World module: the registry no longer holds it.
SysExit ==
    /\ pc = "exiting"
    /\ pc' = "finalizing"
    /\ worldLive' = FALSE
    /\ UNCHANGED <<modules, iter, registered, frameLog, exitCause, subscribed,
                   cbVars, hudVars, clockFps, inputVars, renderVars>>

\* An exception of ModuleWorld.render leaves render, ModuleManager.render and
\* game_loop; main (lines 386-389) catches KeyboardInterrupt only, so the
\* interpreter prints the traceback and ends.  exit_game is not called.
UncaughtInRender ==
    /\ pc' = "crashed"
    /\ exitCause' = "render"
    /\ UNCHANGED modules

\* The interpreter shuts down: the process is gone, and its threads with it.
Finalize ==
    /\ pc \in {"finalizing", "crashed"}
    /\ pc' = "done"
    /\ worldLive' = FALSE
    /\ UNCHANGED <<modules, iter, registered, frameLog, exitCause, subscribed,
                   cbVars, hudVars, clockFps, inputVars, renderVars>>

(***************************************************************************)
(* game_loop, lines 318-336.                                               *)
(***************************************************************************)
\* A faulty variant of OnConnectFailure: the error is logged and construction goes on.
OnConnectFailure_LogOnly ==
    /\ pc' = "mk_hud"
    /\ exitCause' = "connect"
    /\ UNCHANGED modules

\* The except branch of ModuleWorld.__init__: logging.error(...); exit_game()
OnConnectFailure == ExitGame("connect")

\* ModuleWorld.__init__, lines 179-192.  connects: whether carla.Client /
\* get_world / on_tick succeed; on success the callback is registered.
WorldInit(outcomes) ==
    /\ pc = "mk_world"
    /\ \E connects \in outcomes :
         IF connects
         THEN /\ worldLive' = TRUE /\ subscribed' = TRUE
              /\ pc' = "mk_hud"
              /\ UNCHANGED <<modules, exitCause>>
         ELSE /\ OnConnectFailure
              /\ UNCHANGED <<worldLive, subscribed>>
    /\ UNCHANGED <<iter, registered, frameLog, cbVars, hudVars, clockFps,
                   inputVars, renderVars>>

\* ModuleHUD.__init__ / _init_data_params, lines 97-117.
HudInit ==
    /\ pc = "mk_hud"
    /\ server_fps' = 0 /\ info_text' = <<>> /\ show_info' = TRUE
    /\ pc' = "reg_input"
    /\ UNCHANGED <<modules, iter, registered, frameLog, exitCause, worldVars,
                   cbVars, clockFps, inputVars, renderVars>>

\* Lines 325-327: the module each register_module statement passes, and the
\* statement that follows it.
RegArg(p) ==
    IF p = "reg_input" THEN MODULE_INPUT
    ELSE IF p = "reg_hud" THEN MODULE_HUD ELSE MODULE_WORLD

RegNext(p) ==
    IF p = "reg_input" THEN "reg_hud"
    ELSE IF p = "reg_hud" THEN "reg_world" ELSE "clock"

Register ==
    /\ pc \in {"reg_input", "reg_hud", "reg_world"}
    /\ modules' = RegisterModule(modules, RegArg(pc))
    /\ registered' = Append(registered, RegArg(pc))
    /\ pc' = RegNext(pc)
    /\ UNCHANGED <<iter, frameLog, exitCause, worldVars, cbVars, hudVars,
                   clockFps, inputVars, renderVars>>

\* A faulty variant of NextPhase: the loop body renders before it ticks.
NextPhase_RenderFirst(p) ==
    IF p = "clock" THEN "fill"
    ELSE IF p = "render" THEN "tick"
    ELSE IF p = "tick" THEN "flip"
    ELSE "clock"

\* The order of the statements of the loop body, lines 331-336.
NextPhase(p) ==
    IF p = "clock" THEN "tick"
    ELSE IF p = "tick" THEN "fill"
    ELSE IF p = "render" THEN "flip"
    ELSE "clock"

\* clock.tick_busy_loop(60), then module_manager.tick starts its iteration.
ClockTick(rates) ==
    /\ pc = "clock"
    /\ \E r \in rates : clockFps' = r
    /\ frameLog' = <<Call("clock", "-")>>
    /\ pc' = NextPhase("clock") /\ iter' = 1
    /\ UNCHANGED <<modules, registered, exitCause, worldVars, cbVars, hudVars,
                   inputVars, renderVars>>

\* A faulty variant of HasNext: the pass stops one module early.
HasNext_OffByOne == iter < Len(modules)

\* The for loop of a pass has a next module: the list iterator compares its
\* index with the list's current length.
HasNext == iter <= Len(modules)

\* ModuleInput.tick -> parse_input, lines 255-300: one poll.
InputTick(kinds, maxLen, positions, maxUp, maxDown) ==
    /\ pc = "tick" /\ HasNext /\ modules[iter] = MODULE_INPUT
    /\ \E evs \in SeqsUpTo(kinds, maxLen), pos \in positions :
         LET st0 == [mouse_pos |-> mouse_pos, scale_x |-> scale_x,
                     scale_y |-> scale_y, ups |-> ups, downs |-> downs,
                     exited |-> FALSE, cause |-> "none", processed |-> 0]
             st == ParseEvents(evs, 1, st0, pos)
             pressed == HeldAfter(held, evs)
             drag == ~st.exited /\ pressed
             delta == IF drag THEN PanDelta(pos, st.mouse_pos) ELSE <<0, 0>>
         IN  /\ Plausible(held, evs)
             /\ st.ups <= maxUp /\ st.downs <= maxDown
             /\ offset_x + delta[1] \in
                    (InitialOffset - MaxPan)..(InitialOffset + MaxPan)
             /\ offset_y + delta[2] \in
                    (InitialOffset - MaxPan)..(InitialOffset + MaxPan)
             /\ frameLog' = Append(frameLog, Call("tick", MODULE_INPUT))
             /\ scale_x' = st.scale_x /\ scale_y' = st.scale_y
             /\ offset_x' = offset_x + delta[1]
             /\ offset_y' = offset_y + delta[2]
             /\ mouse_pos' = IF drag THEN pos ELSE st.mouse_pos
             /\ held' = pressed /\ mouse' = pos
             /\ polled' = evs /\ processed' = st.processed
             /\ ups' = st.ups /\ downs' = st.downs
             /\ IF st.exited
                THEN ExitGame(st.cause) /\ UNCHANGED iter
                ELSE iter' = iter + 1 /\ UNCHANGED <<pc, modules, exitCause>>
    /\ UNCHANGED <<registered, worldVars, cbVars, hudVars, clockFps, renderVars>>

\* ModuleHUD.tick, lines 123-129.
HudTick ==
    /\ pc = "tick" /\ HasNext /\ modules[iter] = MODULE_HUD
    /\ frameLog' = Append(frameLog, Call("tick", MODULE_HUD))
    /\ info_text' = IF show_info THEN HudText(server_fps, clockFps) ELSE info_text
    /\ iter' = iter + 1
    /\ UNCHANGED <<pc, modules, registered, exitCause, worldVars, cbVars,
                   server_fps, show_info, clockFps, inputVars, renderVars>>

\* ModuleWorld.tick, lines 194-195: pass.
WorldTick ==
    /\ pc = "tick" /\ HasNext /\ modules[iter] = MODULE_WORLD
    /\ frameLog' = Append(frameLog, Call("tick", MODULE_WORLD))
    /\ iter' = iter + 1
    /\ UNCHANGED <<pc, modules, registered, exitCause, worldVars, cbVars,
                   hudVars, clockFps, inputVars, renderVars>>

\* ModuleManager.tick returns: its for loop is exhausted.
TickDone ==
    /\ pc = "tick" /\ ~HasNext
    /\ pc' = NextPhase("tick")
    /\ UNCHANGED <<modules, iter, registered, frameLog, exitCause, worldVars,
                   cbVars, hudVars, clockFps, inputVars, renderVars>>

\* ModuleManager.render, line 81: display.fill((0, 0, 0)), then the loop starts.
RenderFill ==
    /\ pc = "fill"
    /\ frameLog' = Append(frameLog, Call("fill", "-"))
    /\ pc' = "render" /\ iter' = 1
    /\ UNCHANGED <<modules, registered, exitCause, worldVars, cbVars, hudVars,
                   clockFps, inputVars, renderVars>>

\* ModuleInput.render, lines 252-253: pass.
InputRender ==
    /\ pc = "render" /\ HasNext /\ modules[iter] = MODULE_INPUT
    /\ frameLog' = Append(frameLog, Call("render", MODULE_INPUT))
    /\ iter' = iter + 1
    /\ UNCHANGED <<pc, modules, registered, exitCause, worldVars, cbVars,
                   hudVars, clockFps, inputVars, renderVars>>

\* ModuleHUD.render, lines 131-165: draws self._info_text on the display;
\* it writes no field of the program.
HudRender ==
    /\ pc = "render" /\ HasNext /\ modules[iter] = MODULE_HUD
    /\ frameLog' = Append(frameLog, Call("render", MODULE_HUD))
    /\ iter' = iter + 1
    /\ UNCHANGED <<pc, modules, registered, exitCause, worldVars, cbVars,
                   hudVars, clockFps, inputVars, renderVars>>

\* ModuleWorld.render, lines 230-240.  failure: where an exception is raised,
\* "fetch" in get_actors / get_map (before the fill), "map" in render_map
\* (after the fill), "scale" in transform.scale / blit (after the drawing),
\* or "none".
WorldRender(failures, snapshots) ==
    /\ pc = "render" /\ HasNext /\ modules[iter] = MODULE_WORLD
    /\ frameLog' = Append(frameLog, Call("render", MODULE_WORLD))
    /\ \E failure \in failures, fetched \in snapshots :
         /\ actors' = IF failure = "fetch" THEN actors ELSE fetched
         /\ surface' = IF failure = "fetch" THEN surface
                       ELSE IF failure = "map" THEN <<>>
                       ELSE DrawWorld(fetched)
         /\ IF failure = "none"
            THEN iter' = iter + 1 /\ UNCHANGED <<pc, modules, exitCause>>
            ELSE UncaughtInRender /\ UNCHANGED iter
    /\ UNCHANGED <<registered, worldVars, cbVars, hudVars, clockFps, inputVars>>

\* ModuleManager.render returns: its for loop is exhausted.
RenderDone ==
    /\ pc = "render" /\ ~HasNext
    /\ pc' = NextPhase("render")
    /\ UNCHANGED <<modules, iter, registered, frameLog, exitCause, worldVars,
                   cbVars, hudVars, clockFps, inputVars, renderVars>>

\* pygame.display.flip(), line 336, and back to the head of the loop.
Flip ==
    /\ pc = "flip"
    /\ frameLog' = Append(frameLog, Call("flip", "-"))
    /\ pc' = NextPhase("flip")
    /\ UNCHANGED <<modules, iter, registered, exitCause, worldVars, cbVars,
                   hudVars, clockFps, inputVars, renderVars>>

(***************************************************************************)
(* The simulator tick callback, lines 188 and 197-203, on the client's     *)
(* thread.  It can run whenever it is registered and the process lives.    *)
(***************************************************************************)
\* The client calls the lambda of line 188.
CbInvoke ==
    /\ subscribed /\ pc # "done" /\ cbpc = "idle"
    /\ cbpc' = "resolve"
    /\ UNCHANGED <<loopVars, worldVars, cbHud, cbFailed, hudVars, clockFps,
                   inputVars, renderVars>>

\* self = weak_self(); if not self: return
CbResolve ==
    /\ pc # "done" /\ cbpc = "resolve"
    /\ cbpc' = IF worldLive THEN "lookup" ELSE "idle"
    /\ UNCHANGED <<loopVars, worldVars, cbHud, cbFailed, hudVars, clockFps,
                   inputVars, renderVars>>

\* hud_module = module_manager.get_module(MODULE_HUD)
CbLookup ==
    /\ pc # "done" /\ cbpc = "lookup"
    /\ cbHud' = GetModule(modules, MODULE_HUD)
    /\ cbpc' = "forward"
    /\ UNCHANGED <<loopVars, worldVars, cbFailed, hudVars, clockFps,
                   inputVars, renderVars>>

\* hud_module.on_world_tick(timestamp), lines 119-121: on None the attribute
\* lookup raises AttributeError; on the HUD, _server_clock.tick() and
\* server_fps = _server_clock.get_fps().
CbForward(rates) ==
    /\ pc # "done" /\ cbpc = "forward"
    /\ IF cbHud = None
       THEN cbFailed' = TRUE /\ UNCHANGED server_fps
       ELSE (\E r \in rates : server_fps' = r) /\ UNCHANGED cbFailed
    /\ cbpc' = "idle" /\ cbHud' = None
    /\ UNCHANGED <<loopVars, worldVars, info_text, show_info, clockFps,
                   inputVars, renderVars>>

(***************************************************************************)
(* Specifications.                                                         *)
(***************************************************************************)
\* One actor list with an actor for every number of matching filters.
MixedSnapshot == <<TVehicle, TWalker, TLightedVehicle>>

\* The program with a ticking simulator, failing connections and fetches,
\* and keyboard, window and wheel events.
Next ==
    \/ WorldInit({TRUE, FALSE})
    \/ HudInit
    \/ Register
    \/ ClockTick(ClientRates)
    \/ InputTick({EvQuit, EvEscapeUp, EvOtherKeyUp, EvWheelUp}, MaxEvents,
                 {<<0, 0>>}, MaxWheel, MaxWheel)
    \/ HudTick
    \/ WorldTick
    \/ TickDone
    \/ RenderFill
    \/ InputRender
    \/ HudRender
    \/ WorldRender({"none", "fetch", "map", "scale"}, {MixedSnapshot})
    \/ RenderDone
    \/ Flip
    \/ SysExit
    \/ Finalize
    \/ CbInvoke
    \/ CbResolve
    \/ CbLookup
    \/ CbForward(ServerRates)

Spec == Init /\ [][Next]_vars

(***************************************************************************)
(* Claims checked under Spec.                                              *)
(***************************************************************************)
Ended == {"exiting", "finalizing", "done"}

\* The names of the modules the current frame has called op on, in call order.
RECURSIVE CalledFrom(_, _, _)
CalledFrom(log, i, op) ==
    IF i > Len(log) THEN <<>>
    ELSE (IF log[i].op = op THEN <<log[i].module>> ELSE <<>>)
         \o CalledFrom(log, i + 1, op)

Called(op) == CalledFrom(frameLog, 1, op)

IsPrefix(s, t) == Len(s) <= Len(t) /\ SubSeq(t, 1, Len(s)) = s

\* A frame has run to its end and the next has not begun.
FrameComplete == pc = "clock" /\ frameLog # <<>>

\* C1: every run of the simulator tick callback, whatever the main thread is
\* doing, changes nothing if the World View is gone and, if it is live, finds
\* the HUD in the registry and forwards the timestamp to it: the lookup never
\* yields None and the forwarding never fails.
C1_CallbackFindsHud ==
    [][ /\ (cbpc = "resolve" /\ cbpc' # "resolve" /\ ~worldLive)
            => (cbpc' = "idle" /\ UNCHANGED <<loopVars, worldVars, cbHud, cbFailed,
                                             hudVars, clockFps, inputVars, renderVars>>)
        /\ (cbpc = "lookup" /\ cbpc' = "forward") => cbHud' = MODULE_HUD
        /\ ~cbFailed' ]_vars

\* C2: a failure of ModuleWorld.render ends the process through exit_game: when
\* the process is gone after such a failure, the registry has been cleared.
C2_RenderFailureClearsRegistry ==
    (exitCause = "render" /\ pc = "done") => modules = <<>>

\* C3: after a failed connection the shutdown procedure has run and the process
\* is ending; no module was ever registered, the callback was never registered,
\* and no clock advance, tick, render or present has happened.
C3_ConnectFailureEndsBeforeLoop ==
    exitCause = "connect" =>
        /\ pc \in Ended
        /\ modules = <<>> /\ registered = <<>>
        /\ frameLog = <<>>
        /\ ~subscribed

C3_Witness == exitCause = "connect" /\ pc = "done"

\* The phase of a call of the loop body: clock 1, tick pass 2, render pass 3
\* (its fill included), present 4.
PhaseOf(e) ==
    IF e.op = "clock" THEN 1
    ELSE IF e.op = "tick" THEN 2
    ELSE IF e.op \in {"fill", "render"} THEN 3
    ELSE 4

\* C4: within a frame the calls come phase by phase: the clock advance first and
\* once, then ticks, then renders, then one present; a render (or the fill)
\* comes only after every registered module was ticked, the present only after
\* every registered module was rendered; a finished frame ends with the present.
C4_PhasesInSequence ==
    /\ \A i, j \in DOMAIN frameLog :
           i < j => PhaseOf(frameLog[i]) <= PhaseOf(frameLog[j])
    /\ \A i \in DOMAIN frameLog : (frameLog[i].op = "clock") <=> (i = 1)
    /\ \A j \in DOMAIN frameLog :
           PhaseOf(frameLog[j]) = 3 =>
               \A k \in DOMAIN registered :
                   \E i \in 1..(j - 1) : frameLog[i] = Call("tick", registered[k])
    /\ \A j \in DOMAIN frameLog :
           frameLog[j].op = "flip" =>
               /\ j = Len(frameLog)
               /\ \A k \in DOMAIN registered :
                      \E i \in 1..(j - 1) : frameLog[i] = Call("render", registered[k])
    /\ FrameComplete => frameLog[Len(frameLog)].op = "flip"
    /\ (pc = "tick") => \A i \in DOMAIN frameLog : PhaseOf(frameLog[i]) <= 2
    /\ (pc \in {"fill", "render"}) => \A i \in DOMAIN frameLog : PhaseOf(frameLog[i]) <= 3

C4_Witness == FrameComplete /\ Len(frameLog) = 9

\* C5: a tick pass calls tick on the registered modules in registration order,
\* each once, and a pass that ran to its end called all of them; a render pass
\* fills the display once, before any render, and then calls render on the
\* registered modules in registration order, each once, all of them when it ran
\* to its end.  The loop registers Input, Hud, World in that order.
C5_PassesInRegistrationOrder ==
    /\ IsPrefix(Called("tick"), registered)
    /\ IsPrefix(Called("render"), registered)
    /\ (pc \in {"fill", "render", "flip"} \/ FrameComplete) => Called("tick") = registered
    /\ (pc = "flip" \/ FrameComplete) => Called("render") = registered
    /\ Len(Called("fill")) <= 1
    /\ (pc \in {"render", "flip"} \/ FrameComplete) => Len(Called("fill")) = 1
    /\ \A j \in DOMAIN frameLog :
           frameLog[j].op = "render" => \E i \in 1..(j - 1) : frameLog[i].op = "fill"
    /\ frameLog # <<>> => registered = <<MODULE_INPUT, MODULE_HUD, MODULE_WORLD>>

C5_Witness ==
    /\ pc = "flip"
    /\ Called("tick") = <<"Input", "Hud", "World">>
    /\ Called("render") = <<"Input", "Hud", "World">>

\* The events the claim names: window close and Escape key-up.
ShutdownEvents == {EvQuit, EvEscapeUp}

\* The position of the first shutdown event of a list (0: none).
FirstShutdown(evs) ==
    IF \E i \in DOMAIN evs : evs[i] \in ShutdownEvents
    THEN CHOOSE i \in DOMAIN evs :
             /\ evs[i] \in ShutdownEvents
             /\ \A k \in 1..(i - 1) : evs[k] \notin ShutdownEvents
    ELSE 0

\* C6: when the poll of the Input Handler's tick holds a window-close or
\* Escape key-up event, the shutdown procedure has run at the first such event:
\* the registry is empty, the process is ending, no event after it was handled,
\* and the Input Handler's tick is the last call of the frame (no later tick,
\* render or present).  A poll without such an event (other key-ups included)
\* shuts nothing down.
C6_ExitEventShutsDown ==
    /\ FirstShutdown(polled) # 0 =>
           /\ exitCause = (IF polled[FirstShutdown(polled)] = EvQuit
                           THEN "quit" ELSE "escape")
           /\ pc \in Ended
           /\ modules = <<>>
           /\ processed = FirstShutdown(polled)
           /\ frameLog[Len(frameLog)] = Call("tick", MODULE_INPUT)
    /\ FirstShutdown(polled) = 0 => exitCause \notin {"quit", "escape"}

C6_Witness ==
    /\ polled = <<EvOtherKeyUp, EvEscapeUp>> \/ polled = <<EvQuit, EvWheelUp>>
    /\ pc = "done"
    /\ ups = 0

\* C10: the stored server rate changes only in the callback's forwarding step,
\* which touches neither the main loop's position, nor the client rate, nor the
\* text; no callback step changes the client rate or the text; the client rate
\* changes only at the clock advance; and each HUD tick sets both lines from
\* the server rate and the client rate of that moment.
C10_RatesIndependent ==
    [][ /\ server_fps' # server_fps =>
              /\ cbpc = "forward" /\ cbpc' = "idle"
              /\ UNCHANGED <<loopVars, clockFps, info_text>>
        /\ cbpc' # cbpc => UNCHANGED <<loopVars, clockFps, info_text>>
        /\ clockFps' # clockFps => (pc = "clock" /\ cbpc' = cbpc)
        /\ frameLog' = Append(frameLog, Call("tick", MODULE_HUD)) =>
              info_text' = << [label |-> "Server", fps |-> server_fps \div 10],
                              [label |-> "Client", fps |-> clockFps \div 10] >>
      ]_vars

C10_Witness ==
    /\ info_text = << [label |-> "Server", fps |-> 29],
                      [label |-> "Client", fps |-> 59] >>
    /\ server_fps = 0

(***************************************************************************)
(* SpecZoom: the program with a silent simulator and a user who turns the  *)
(* wheel, presses the left button and releases keys, but never quits.      *)
(***************************************************************************)
NextZoom ==
    \/ WorldInit({TRUE})
    \/ HudInit
    \/ Register
    \/ ClockTick({599})
    \/ InputTick({EvWheelUp, EvWheelDown, EvLeftDown, EvOtherKeyUp}, MaxBurst,
                 {<<0, 0>>}, MaxUps, MaxDowns)
    \/ HudTick
    \/ WorldTick
    \/ TickDone
    \/ RenderFill
    \/ InputRender
    \/ HudRender
    \/ WorldRender({"none"}, {MixedSnapshot})
    \/ RenderDone
    \/ Flip

SpecZoom == Init /\ [][NextZoom]_vars

\* n * 0.1 as Python computes it: the product of two doubles, rounded once.
DMulInt(n, d) ==
    IF n >= 0 THEN DRound(DTimes(n, d)) ELSE DNeg(DRound(DTimes(-n, d)))

\* 1 + (ups - downs) * t without any rounding, t the double nearest to 0.1.
ZoomUnrounded ==
    DExactAdd(DExactAdd(DOne, DTimes(ups, Tenth)), DNeg(DTimes(downs, Tenth)))

\* C7 as stated: after u wheel-ups and d wheel-downs both factors equal
\* 1 + 0.1 * (u - d), here read as Python evaluates that expression.
C7_ZoomIsLinear ==
    /\ scale_x = DAdd(DOne, DMulInt(ups - downs, Tenth))
    /\ scale_y = DAdd(DOne, DMulInt(ups - downs, Tenth))

\* C7 as amended: the two factors are always equal; only wheel events move
\* them, one double-precision step of 0.1 each, with no clamping; after u
\* wheel-ups and d wheel-downs (factors below 2) they lie within
\* (u + d) * 2^-52 of 1 + 0.1 * (u - d).  In units of 2^-56: each step rounds
\* by at most 8 and the double 0.1 is off by 0.4, so the distance from
\* 1 + (u - d) * double(0.1) is at most 15 * (u + d), which is below
\* 16 * (u + d) - 0.4 * (u + d).
C7_ZoomTracksWheel ==
    /\ scale_x = scale_y
    /\ DLeq(DAbs(DExactAdd(scale_x, DNeg(ZoomUnrounded))), <<0, 15 * (ups + downs)>>)
    /\ DLeq(DAbs(scale_x), <<2^29, 0>>)

\* Eleven wheel-downs and no wheel-up: the factor is negative, about -0.1.
C7_Witness ==
    /\ ups = 0 /\ downs = 11
    /\ DIsNeg(scale_x) /\ DIsNeg(scale_y)
    /\ scale_x = <<-26843546, 107374192>>

(***************************************************************************)
(* SpecPan: the program with a silent simulator and a user who drags,      *)
(* turns the wheel up, and may close the window.                           *)
(***************************************************************************)
PanPositions == {<<0, 0>>, <<1, 2>>}

NextPan ==
    \/ WorldInit({TRUE})
    \/ HudInit
    \/ Register
    \/ ClockTick({599})
    \/ InputTick({EvLeftDown, EvLeftUp, EvWheelUp, EvMotion, EvQuit}, MaxBurst,
                 PanPositions, MaxWheel, MaxWheel)
    \/ HudTick
    \/ WorldTick
    \/ TickDone
    \/ RenderFill
    \/ InputRender
    \/ HudRender
    \/ WorldRender({"none"}, {MixedSnapshot})
    \/ RenderDone
    \/ Flip
    \/ SysExit
    \/ Finalize

SpecPan == Init /\ [][NextPan]_vars

\* This step is a poll of the Input Handler that ran to its end with the left
\* button held, the button having been held at the poll before as well.
DragPoll ==
    /\ frameLog' = Append(frameLog, Call("tick", MODULE_INPUT))
    /\ pc' = "tick"
    /\ held /\ held'

\* The poll's event list holds a mouse-button-down event (any button: the
\* wheel reports as buttons 4 and 5).
ButtonDownPolled(evs) == \E i \in DOMAIN evs : evs[i].type = "MOUSEBUTTONDOWN"

\* C8: at every poll with the button held at it and at the poll
\* before, whatever events arrived in between, the pan offsets grow by exactly
\* the mouse position of this poll minus that of the poll before.
C8_PanEqualsMouseDelta ==
    [][ DragPoll =>
            /\ offset_x' - offset_x = mouse'[1] - mouse[1]
            /\ offset_y' - offset_y = mouse'[2] - mouse[2] ]_vars

\* What the code does at such a poll (not cut short by shutdown): the offsets
\* grow by the difference of the two mouse positions only if the poll holds no
\* mouse-button-down event; any such event, the wheel's included, first resets
\* mouse_pos to the current position, and the offsets then stay as they are.
PanSkipsPollsWithButtonDown ==
    [][ DragPoll =>
            IF ButtonDownPolled(polled')
            THEN offset_x' = offset_x /\ offset_y' = offset_y
            ELSE /\ offset_x' - offset_x = mouse'[1] - mouse[1]
                 /\ offset_y' - offset_y = mouse'[2] - mouse[2] ]_vars

(***************************************************************************)
(* SpecRender: the program with a silent simulator, an idle user and every *)
(* actor list of at most MaxActors actors.                                 *)
(***************************************************************************)
NextRender ==
    \/ WorldInit({TRUE})
    \/ HudInit
    \/ Register
    \/ ClockTick({599})
    \/ InputTick({EvMotion}, 0, {<<0, 0>>}, 0, 0)
    \/ HudTick
    \/ WorldTick
    \/ TickDone
    \/ RenderFill
    \/ InputRender
    \/ HudRender
    \/ WorldRender({"none"}, SeqsUpTo(TypeIds, MaxActors))
    \/ RenderDone
    \/ Flip

SpecRender == Init /\ [][NextRender]_vars

\* f occurs in s: s is some a characters, then f, then the rest.
Contains(f, s) ==
    \E a \in 0..Len(s) :
        /\ a + Len(f) <= Len(s)
        /\ \A k \in 1..Len(f) : s[a + k] = f[k]

\* How often a circle of that colour was drawn for actor i.
DrawCount(i, color) ==
    Cardinality({k \in DOMAIN surface : surface[k] = [actor |-> i, color |-> color]})

\* The filters and their colours, as the claim lists them.
ClaimedFilters ==
    {<<FVehicle, "red">>, <<FTrafficLight, "green">>, <<FSpeedLimit, "blue">>}

\* C9: after a World View render, every actor of the fetched list is drawn
\* exactly once in a filter's colour if the filter string occurs in its type
\* id and not at all in that colour otherwise (so k matching filters give k
\* circles, none gives none); besides the map line nothing else is drawn.
C9_DrawnOncePerMatchingFilter ==
    exitCause # "render" =>
        /\ \A i \in DOMAIN actors : \A fc \in ClaimedFilters :
               DrawCount(i, fc[2]) = IF Contains(fc[1], actors[i]) THEN 1 ELSE 0
        /\ \A k \in DOMAIN surface :
               \/ surface[k] = [actor |-> 0, color |-> "magenta"]
               \/ /\ surface[k].actor \in DOMAIN actors
                  /\ surface[k].color \in {"red", "green", "blue"}

\* An actor whose id holds all three filter strings next to one that holds
\* none: three circles for the first, none for the second.
C9_Witness ==
    /\ actors = <<TAllThree, TWalker>>
    /\ DrawCount(1, "red") = 1 /\ DrawCount(1, "green") = 1 /\ DrawCount(1, "blue") = 1
    /\ Len(surface) = 4

=============================================================================
